---- MODULE Spec2Model ----
(***************************************************************************)
(* crosstalkio/rest: the authenticated-retry request pipeline of the      *)
(* client (client.go) and the content negotiation of the server session   *)
(* (session.go).                                                           *)
(*                                                                         *)
(* Strings that the code only compares for equality are TLA+ strings.     *)
(* Media types, on which the code tests prefixes, and byte slices are     *)
(* sequences of strings (one element per chunk of text / per byte), so    *)
(* strings.HasPrefix is a real prefix test.                                *)
(*                                                                         *)
(* A logical call on the Client is a process p \in Calls whose position   *)
(* is call[p].pc.  Every access of the shared field c.auth is a step of   *)
(* its own, so that calls running concurrently on one Client interleave   *)
(* between the accesses as goroutines do.                                 *)
(***************************************************************************)
EXTENDS Integers, Sequences, FiniteSets, TLC

VARIABLES
    installed,  \* the capability given to Client.Auth: "nil" (none) or "A"
    auth,       \* Client.auth: "nil" or the capability "A"
    protobuf,   \* Client.protobuf
    status,     \* Client.status, the expected status (0: none)
    call,       \* per logical call: position, arguments, locals, history
    ncalls,     \* logical calls started so far
    jsonIndent, \* Server: a JSON prefix or indent is configured
    sreq,       \* Session.Request: the inbound request
    resp,       \* Session.ResponseWriter: headers, status lines, body written
    sout,       \* what the last Session operation chose and returned
    spc,        \* position of the handler that owns the Session
    rsp,        \* a *Response in the hands of the application
    dec         \* what the last Response.Decode on it returned

\* The Session's part of the state, which the client never touches.
svars == <<jsonIndent, sreq, resp, sout, spc>>
\* The Client's part of the state, which the Session never touches.
cvars == <<installed, auth, protobuf, status, call, ncalls>>

\* A Response being decoded, which neither of them touches.
dvars == <<rsp, dec>>

vars == <<cvars, svars, dvars>>

----------------------------------------------------------------------------
(* Bounds *)

\* Longest byte slice / stream content given as a request body.
MaxBody == 1
\* Logical calls issued one after the other on the Client.
MaxCalls == 2
\* Most values of the Accept header of an inbound request.
MaxAccept == 2

----------------------------------------------------------------------------
(* Constants of the program *)

jsonContentType == <<"application/json">>
protoContentType == <<"application/protobuf">>
NoType == <<>>
JsonContentType == <<"application/json">>
ProtobufContentTypes == <<<<"application/protobuf">>, <<"application/x-protobuf">>>>
TextContentType == <<"text/plain; charset=utf-8">>

Calls == {1, 2}

ByteVals == {"a", "b"}
RECURSIVE SeqsUpTo(_, _)
SeqsUpTo(S, n) ==
    IF n = 0 THEN {<<>>}
    ELSE LET shorter == SeqsUpTo(S, n - 1)
         IN  shorter \cup {Append(s, x) : s \in shorter, x \in S}
Bytes == SeqsUpTo(ByteVals, MaxBody)

----------------------------------------------------------------------------
(* Values *)

\* The body argument r of Client.Request / Request.Do, by the case of the
\* type switch it takes: kind "nil" (isNil), "bytes" ([]byte), "reader"
\* (io.Reader), "raw" (json.RawMessage), "proto" (proto.Message), "other".
\* data is the bytes / the stream's content / the message; fails says that
\* reading the stream or marshalling the value fails.
NilBody == [kind |-> "nil", data |-> <<>>, fails |-> FALSE]
BodyArgs ==
    {NilBody}
    \cup [kind : {"bytes", "raw"}, data : Bytes, fails : {FALSE}]
    \cup [kind : {"reader"}, data : Bytes, fails : BOOLEAN]
    \cup [kind : {"proto", "other"}, data : {<<"m">>}, fails : BOOLEAN]

Methods == {"GET", "POST", "B D"}
URLs == {"/u", "%"}

\* The header set of the request: "" / <<>> is an absent header.
NoHeader == [ct |-> NoType, accept |-> NoType, authz |-> ""]
CallerHeaders == {NoHeader, [NoHeader EXCEPT !.accept = <<"text/plain">>]}

\* What the server answers: the status code, the body and the declared type.
Codes == {200, 401}
StatusLine(code) == IF code = 200 THEN "200 OK" ELSE "401 Unauthorized"
NilRes == [nil |-> TRUE, code |-> 0, line |-> "", body |-> <<>>, ct |-> NoType,
           trip |-> 0, protobuf |-> FALSE]

IdleCall ==
    [pc |-> "idle", entry |-> "", method |-> "", url |-> "", header |-> NoHeader,
     r |-> NilBody, stream |-> <<>>, attempt |-> 0,
     body |-> <<>>, ctype |-> NoType, req |-> [method |-> "", url |-> "",
     body |-> <<>>, header |-> NoHeader], lauth |-> "nil", auth0 |-> "nil",
     raw |-> NilRes, res |-> NilRes, err |-> "nil", valid |-> TRUE,
     sent |-> <<>>, trace |-> <<>>]

\* One entry of a call's history: the pipeline step, the attempt (1, or 2
\* for the retry) and how it ended ("ok", "err", or "false" for Validate).
Ev(op, att, out) == [op |-> op, att |-> att, out |-> out]

----------------------------------------------------------------------------
(* Pure helpers of Client.request *)

\* json.Marshal and proto.Marshal of a message: two different encodings.
JsonMarshal(d) == <<"{">> \o d \o <<"}">>
ProtoMarshal(d) == <<"#">> \o d

\* client.go 183-215: the body bytes, the content type, the error and what
\* is left of a stream argument.
SerializeBody(r, stream, pb) ==
    LET out(b, ct, e, st) == [body |-> b, ctype |-> ct, err |-> e, stream |-> st]
    IN  CASE r.kind = "nil" -> out(<<>>, NoType, "nil", stream)
          [] r.kind = "bytes" -> out(r.data, NoType, "nil", stream)
          [] r.kind = "reader" ->
                IF r.fails THEN out(<<>>, NoType, "ErrSerialize", stream)
                ELSE out(stream, NoType, "nil", <<>>)
          [] r.kind = "raw" -> out(r.data, jsonContentType, "nil", stream)
          [] r.kind = "proto" ->
                IF pb
                THEN out(IF r.fails THEN <<>> ELSE ProtoMarshal(r.data),
                         protoContentType,
                         IF r.fails THEN "ErrSerialize" ELSE "nil", stream)
                ELSE out(IF r.fails THEN <<>> ELSE JsonMarshal(r.data),
                         jsonContentType,
                         IF r.fails THEN "ErrSerialize" ELSE "nil", stream)
          [] OTHER ->
                out(IF r.fails THEN <<>> ELSE JsonMarshal(r.data),
                    jsonContentType,
                    IF r.fails THEN "ErrSerialize" ELSE "nil", stream)

\* http.NewRequest rejects an invalid method token and an unparsable URL.
NewRequestFails(method, url) == method = "B D" \/ url = "%"

\* client.go 221-226: Content-Type from serialization, then every header of
\* the caller's set replaces the request's.
BuildHeader(ctype, header) ==
    [ct |-> IF header.ct # NoType THEN header.ct ELSE ctype,
     accept |-> header.accept,
     authz |-> header.authz]

\* A variant of the Accept default that yields to an Accept already set.
AcceptHeaderKeepsCallers(ctype, pb, accept) ==
    IF ctype = NoType /\ accept = NoType
    THEN (IF pb THEN protoContentType ELSE jsonContentType)
    ELSE accept

\* client.go 238-244: the Accept header after the default is applied.
AcceptHeader(ctype, pb, accept) ==
    IF ctype = NoType
    THEN (IF pb THEN protoContentType ELSE jsonContentType)
    ELSE accept

StatusMismatchAlways(expected, code) == expected # code

\* client.go 258: the status assertion fails the call.
StatusMismatch(expected, code) == expected # 0 /\ expected # code

----------------------------------------------------------------------------
(* The steps of a logical call *)

\* An unrecovered panic (a method invoked on a nil interface) ends the process.
Crashed == \E q \in Calls : call[q].pc = "panic"

Step(p, rec) == call' = [call EXCEPT ![p] = rec]

\* c.request returns (res, err) to the function that called it.
ReturnFrom(c, res, err, ev) ==
    [c EXCEPT !.pc = "returned", !.res = res, !.err = err,
              !.trace = Append(@, ev)]

\* client.go 151-153: Client.Request (and Get/Post/Put/Delete, 135-149)
\* calls c.request(method, nil, url, r); the arguments come from the sets
\* M, U and R.
RequestWith(p, M, U, R) ==
    /\ ~Crashed
    /\ call[p].pc = "idle"
    /\ ncalls < MaxCalls
    /\ \E m \in M, u \in U, r \in R :
         Step(p, [IdleCall EXCEPT !.pc = "serialize", !.entry = "Request",
                     !.method = m, !.url = u, !.r = r, !.stream = r.data,
                     !.attempt = 1, !.auth0 = auth])
    /\ ncalls' = ncalls + 1
    /\ UNCHANGED <<dvars, svars, installed, auth, protobuf, status>>

ClientRequest(p) == RequestWith(p, Methods, URLs, BodyArgs)

\* client.go 52-55: Request.Do (and the builder's Get/Post/Put/Delete, 57-71)
\* calls c.request(method, r.header, url, v).
RequestDo(p) ==
    /\ ~Crashed
    /\ call[p].pc = "idle"
    /\ ncalls < MaxCalls
    /\ \E m \in Methods, u \in URLs, r \in BodyArgs, h \in CallerHeaders :
         Step(p, [IdleCall EXCEPT !.pc = "serialize", !.entry = "Do",
                     !.method = m, !.url = u, !.r = r, !.stream = r.data,
                     !.header = h, !.attempt = 1, !.auth0 = auth])
    /\ ncalls' = ncalls + 1
    /\ UNCHANGED <<dvars, svars, installed, auth, protobuf, status>>

\* client.go 54, 155, 161, 167, 171, 176: the entry point has returned to
\* the application, which may issue its next call.
Finish(p) ==
    /\ ~Crashed
    /\ call[p].pc = "done"
    /\ Step(p, IdleCall)
    /\ UNCHANGED <<dvars, svars, installed, auth, protobuf, status, ncalls>>

\* client.go 180-215
Serialize(p) ==
    LET c == call[p]
        s == SerializeBody(c.r, c.stream, protobuf)
    IN  /\ ~Crashed
        /\ c.pc = "serialize"
        /\ IF s.err # "nil"
           THEN Step(p, ReturnFrom(c, NilRes, s.err,
                                   Ev("Serialize", c.attempt, "err")))
           ELSE Step(p, [c EXCEPT !.pc = "newreq", !.body = s.body,
                            !.ctype = s.ctype, !.stream = s.stream,
                            !.trace = Append(@, Ev("Serialize", c.attempt, "ok"))])
        /\ UNCHANGED <<dvars, svars, installed, auth, protobuf, status, ncalls>>

\* client.go 216-226
NewRequest(p) ==
    LET c == call[p]
    IN  /\ ~Crashed
        /\ c.pc = "newreq"
        /\ IF NewRequestFails(c.method, c.url)
           THEN Step(p, ReturnFrom(c, NilRes, "ErrNewRequest",
                                   Ev("NewRequest", c.attempt, "err")))
           ELSE Step(p, [c EXCEPT !.pc = "authchk",
                            !.req = [method |-> c.method, url |-> c.url,
                                     body |-> c.body,
                                     header |-> BuildHeader(c.ctype, c.header)],
                            !.trace = Append(@, Ev("NewRequest", c.attempt, "ok"))])
        /\ UNCHANGED <<dvars, svars, installed, auth, protobuf, status, ncalls>>

\* client.go 227: if c.auth != nil
AuthCheck(p) ==
    LET c == call[p]
    IN  /\ ~Crashed
        /\ c.pc = "authchk"
        /\ Step(p, [c EXCEPT !.pc = IF auth # "nil" THEN "authload" ELSE "accept"])
        /\ UNCHANGED <<dvars, svars, installed, auth, protobuf, status, ncalls>>

\* client.go 228: auth := c.auth
AuthLoad(p) ==
    LET c == call[p]
    IN  /\ ~Crashed
        /\ c.pc = "authload"
        /\ Step(p, [c EXCEPT !.pc = "authclr", !.lauth = auth])
        /\ UNCHANGED <<dvars, svars, installed, auth, protobuf, status, ncalls>>

\* A variant of the clearing assignment that leaves the field as it is.
ClearedAuthKept(cur) == cur

\* client.go 229: the value the field holds during Authorize.
ClearedAuth(cur) == "nil"

\* client.go 229: c.auth = nil
AuthClear(p) ==
    LET c == call[p]
    IN  /\ ~Crashed
        /\ c.pc = "authclr"
        /\ auth' = ClearedAuth(auth)
        /\ Step(p, [c EXCEPT !.pc = "authorize"])
        /\ UNCHANGED <<dvars, svars, installed, protobuf, status, ncalls>>

\* client.go 230: err := auth.Authorize(req).  The capability attaches its
\* credential to the request and may write other headers; it may fail.
Authorize(p) ==
    LET c == call[p]
    IN  /\ ~Crashed
        /\ c.pc = "authorize"
        /\ IF c.lauth = "nil"
           THEN Step(p, [c EXCEPT !.pc = "panic"])
           ELSE \E out \in {"ok", "err"}, acc \in {c.req.header.accept, <<"auth/type">>} :
                  Step(p, [c EXCEPT !.pc = "authrestore",
                              !.req.header.authz = "tok",
                              !.req.header.accept = acc,
                              !.err = IF out = "err" THEN "ErrAuthorize" ELSE "nil",
                              !.trace = Append(@, Ev("Authorize", c.attempt, out))])
        /\ UNCHANGED <<dvars, svars, installed, auth, protobuf, status, ncalls>>

\* client.go 231-236: c.auth = auth on both paths; the error returns.
RestoredAuthOnlyOnSuccess(lauth, cur, failed) == IF failed THEN cur ELSE lauth

RestoredAuthOnlyOnError(lauth, cur, failed) == IF failed THEN lauth ELSE cur

RestoredAuth(lauth, cur, failed) == lauth

AuthRestore(p) ==
    LET c == call[p]
    IN  /\ ~Crashed
        /\ c.pc = "authrestore"
        /\ auth' = RestoredAuth(c.lauth, auth, c.err # "nil")
        /\ IF c.err # "nil"
           THEN Step(p, [c EXCEPT !.pc = "returned", !.res = NilRes])
           ELSE Step(p, [c EXCEPT !.pc = "accept"])
        /\ UNCHANGED <<dvars, svars, installed, protobuf, status, ncalls>>

\* client.go 238-244
AcceptDefault(p) ==
    LET c == call[p]
    IN  /\ ~Crashed
        /\ c.pc = "accept"
        /\ Step(p, [c EXCEPT !.pc = "send",
                        !.req.header.accept =
                            AcceptHeader(c.ctype, protobuf, c.req.header.accept)])
        /\ UNCHANGED <<dvars, svars, installed, auth, protobuf, status, ncalls>>

\* What a round trip can answer.
Responses ==
    {[NilRes EXCEPT !.nil = FALSE, !.code = k, !.line = StatusLine(k),
                    !.body = b, !.ct = t] :
        k \in Codes, b \in {<<>>, <<"x">>}, t \in {jsonContentType, <<"text/html">>}}

\* client.go 245-250: res, err := c.Client.Do(req), one network round trip,
\* answered by one of RS or failing in the transport.
SendWith(p, RS) ==
    LET c == call[p]
        sent == Append(c.sent, c.req)
    IN  /\ ~Crashed
        /\ c.pc = "send"
        /\ \/ Step(p, [ReturnFrom(c, NilRes, "ErrTransport",
                                   Ev("Send", c.attempt, "err"))
                           EXCEPT !.sent = sent])
           \/ \E res \in RS :
                Step(p, [c EXCEPT !.pc = "readbody", !.sent = sent,
                            !.raw = [res EXCEPT !.trip = Len(sent)],
                            !.trace = Append(@, Ev("Send", c.attempt, "ok"))])
        /\ UNCHANGED <<dvars, svars, installed, auth, protobuf, status, ncalls>>

Send(p) == SendWith(p, Responses)

\* client.go 251-256: data, err := ioutil.ReadAll(res.Body)
ReadBody(p) ==
    LET c == call[p]
    IN  /\ ~Crashed
        /\ c.pc = "readbody"
        /\ \/ Step(p, ReturnFrom(c, NilRes, "ErrReadBody",
                                  Ev("ReadBody", c.attempt, "err")))
           \/ Step(p, [c EXCEPT !.pc = "statuschk",
                           !.trace = Append(@, Ev("ReadBody", c.attempt, "ok"))])
        /\ UNCHANGED <<dvars, svars, installed, auth, protobuf, status, ncalls>>

\* client.go 258-268: the status assertion, then the Response is built.
StatusAssert(p) ==
    LET c == call[p]
    IN  /\ ~Crashed
        /\ c.pc = "statuschk"
        /\ IF StatusMismatch(status, c.raw.code)
           THEN Step(p, ReturnFrom(c, NilRes, c.raw.line,
                                   Ev("Status", c.attempt, "err")))
           ELSE Step(p, ReturnFrom(c, [c.raw EXCEPT !.protobuf = protobuf], "nil",
                                   Ev("Status", c.attempt, "ok")))
        /\ UNCHANGED <<dvars, svars, installed, auth, protobuf, status, ncalls>>

AfterRequestValidatesDo(entry, failed, attempt) ==
    IF failed \/ attempt = 2 THEN "done" ELSE "valchk"

AfterRequestRevalidates(entry, failed, attempt) ==
    IF entry = "Do" \/ failed THEN "done" ELSE "valchk"

AfterRequestIgnoresError(entry, failed, attempt) ==
    IF entry = "Do" \/ attempt = 2 THEN "done" ELSE "valchk"

\* Where the caller of c.request goes with its result: Request.Do returns it
\* as it is (client.go 54); Client.Request returns on an error (154-156,
\* 170-172), returns the retry's Response (175-176), or goes on to line 157.
AfterRequest(entry, failed, attempt) ==
    IF entry = "Do" \/ failed \/ attempt = 2 THEN "done" ELSE "valchk"

\* client.go 54, 153-156, 169-176
Returned(p) ==
    LET c == call[p]
    IN  /\ ~Crashed
        /\ c.pc = "returned"
        /\ Step(p, [c EXCEPT
                !.pc = AfterRequest(c.entry, c.err # "nil", c.attempt),
                !.res = IF c.entry = "Request" /\ c.err # "nil" THEN NilRes ELSE @])
        /\ UNCHANGED <<dvars, svars, installed, auth, protobuf, status, ncalls>>

\* client.go 157: if c.auth != nil
ValidateCheck(p) ==
    LET c == call[p]
    IN  /\ ~Crashed
        /\ c.pc = "valchk"
        /\ Step(p, [c EXCEPT !.pc = IF auth # "nil" THEN "validate" ELSE "done"])
        /\ UNCHANGED <<dvars, svars, installed, auth, protobuf, status, ncalls>>

AfterValidateNoRetry(out) == "done"

AfterValidateAlwaysInvalidates(out) == "invalidate"

\* client.go 159-164: where Client.Request goes with Validate's result.
AfterValidate(out) == IF out = "false" THEN "invalidate" ELSE "done"

\* client.go 158-163: valid, err := c.auth.Validate(res)
Validate(p) ==
    LET c == call[p]
    IN  /\ ~Crashed
        /\ c.pc = "validate"
        /\ IF auth = "nil"
           THEN Step(p, [c EXCEPT !.pc = "panic"])
           ELSE \E out \in {"ok", "false", "err"} :
                  Step(p, [c EXCEPT
                      !.pc = AfterValidate(out),
                      !.valid = (out = "ok"),
                      !.err = IF out = "err" THEN "ErrValidate" ELSE "nil",
                      !.res = IF out = "err" THEN NilRes ELSE @,
                      !.trace = Append(@, Ev("Validate", c.attempt, out))])
        /\ UNCHANGED <<dvars, svars, installed, auth, protobuf, status, ncalls>>

\* client.go 164-169: err = c.auth.Invalidate(); then c.request is called
\* again with the same arguments.
Invalidate(p) ==
    LET c == call[p]
    IN  /\ ~Crashed
        /\ c.pc = "invalidate"
        /\ IF auth = "nil"
           THEN Step(p, [c EXCEPT !.pc = "panic"])
           ELSE \/ Step(p, [c EXCEPT !.pc = "done", !.err = "ErrInvalidate",
                               !.res = NilRes,
                               !.trace = Append(@, Ev("Invalidate", c.attempt, "err"))])
                \/ Step(p, [c EXCEPT !.pc = "serialize", !.attempt = 2,
                               !.body = <<>>, !.ctype = NoType, !.req = IdleCall.req,
                               !.lauth = "nil", !.raw = NilRes,
                               !.trace = Append(@, Ev("Invalidate", c.attempt, "ok"))])
        /\ UNCHANGED <<dvars, svars, installed, auth, protobuf, status, ncalls>>

----------------------------------------------------------------------------
(* The server's Session: content negotiation *)

\* strings.HasPrefix
HasPrefix(str, prefix) ==
    Len(str) >= Len(prefix) /\ SubSeq(str, 1, Len(prefix)) = prefix

\* The inbound request: the Content-Type header (NoType: absent), the values
\* of the Accept header, ContentLength (-1: unknown) and the body bytes.
NoRequest == [ct |-> NoType, accept |-> <<>>, clen |-> 0, body |-> <<>>]
MediaTypes ==
    {jsonContentType,
     <<"application/protobuf">>,
     <<"application/x-protobuf">>,
     <<"application/protobuf", "; charset=utf-8">>,
     <<"application/x-protobuf", ", ", "application/json">>,
     <<"application/json", ", ", "application/protobuf">>}
AcceptLists == SeqsUpTo(MediaTypes, MaxAccept)
RequestBodies ==
    {<<>>, <<"{", "m", "}">>, <<"{", "}">>, <<"#", "m">>}
Requests ==
    {r \in [ct : {NoType} \cup MediaTypes, accept : AcceptLists,
            clen : -1 .. 3, body : RequestBodies] :
        r.clen \in {-1, Len(r.body)}}

\* The ResponseWriter: the headers set, the WriteHeader calls, the bytes written.
NewResponse == [ct |-> NoType, nosniff |-> "", codes |-> <<>>, body |-> <<>>]
NoOutcome == [op |-> "", kind |-> "", repr |-> "", err |-> "nil",
              code |-> 0, val |-> <<>>]

acceptAnyValue(r) ==
    IF \E j \in DOMAIN r.accept : HasPrefix(r.accept[j], ProtobufContentTypes[1])
    THEN ProtobufContentTypes[1]
    ELSE IF r.accept = <<>> THEN NoType ELSE r.accept[1]

\* session.go 209-211: Header.Get gives the first value of the header, or "".
accept(r) == IF r.accept = <<>> THEN NoType ELSE r.accept[1]

\* session.go 213-215
contentType(r) == r.ct

isTypeOfExact(mime, types) == \E i \in DOMAIN types : mime = types[i]

\* session.go 221-228
isTypeOf(mime, types) == \E i \in DOMAIN types : HasPrefix(mime, types[i])

\* session.go 217-219
isProto(mime) == isTypeOf(mime, ProtobufContentTypes)

acceptsHeaderOrder(types, values) ==
    LET hits == {j \in DOMAIN values :
                    \E i \in DOMAIN types : HasPrefix(values[j], types[i])}
        first == CHOOSE j \in hits : \A k \in hits : j <= k
    IN  IF hits = {} THEN NoType
        ELSE types[CHOOSE i \in DOMAIN types :
                      /\ HasPrefix(values[first], types[i])
                      /\ \A k \in DOMAIN types :
                            HasPrefix(values[first], types[k]) => i <= k]

\* session.go 230-239: the first of types, in the order of types, that is a
\* prefix of one of the accept values; "" when there is none.
accepts(types, values) ==
    LET hits == {i \in DOMAIN types :
                    \E j \in DOMAIN values : HasPrefix(values[j], types[i])}
    IN  IF hits = {} THEN NoType
        ELSE types[CHOOSE i \in hits : \A k \in hits : i <= k]

\* proto.Unmarshal: the empty slice is the empty message.
ProtoUnmarshalFails(data) == data # <<>> /\ data[1] # "#"
\* json.Decoder.Decode: no document (EOF) and malformed documents fail.
JsonDecodeFails(data) ==
    ~(Len(data) >= 2 /\ data[1] = "{" /\ data[Len(data)] = "}")
\* proto.Marshal of the decoded message fails when a required field is missing.
RequiredMissing(data) == Len(data) = 2

\* session.go 66-69, 90: the representation Decode reads the body in.
DecodeChoice(r, kind) ==
    IF kind = "proto"
       /\ (isProto(contentType(r)) \/ (r.clen <= 0 /\ isProto(accept(r))))
    THEN "binary"
    ELSE "json"

\* session.go 65-93: Session.Decode into a destination of the given kind
\* ("proto": a proto.Message, "other": anything else); reading the body
\* stream may fail.
SessionDecode ==
    /\ spc = "handling"
    /\ \E kind \in {"proto", "other"}, readFails \in BOOLEAN :
         LET repr == DecodeChoice(sreq, kind)
             err == IF repr = "binary"
                    THEN (IF readFails THEN "ErrRead"
                          ELSE IF ProtoUnmarshalFails(sreq.body) THEN "ErrUnmarshal"
                          ELSE "nil")
                    ELSE IF readFails \/ JsonDecodeFails(sreq.body) THEN "ErrJSON"
                    ELSE IF kind = "proto" /\ RequiredMissing(sreq.body)
                         THEN "ErrRequired"
                    ELSE "nil"
         IN  sout' = [NoOutcome EXCEPT !.op = "Decode", !.kind = kind,
                                     !.repr = repr, !.err = err]
    /\ spc' = "decoded"
    /\ UNCHANGED <<dvars, cvars, jsonIndent, sreq, resp>>

\* The values handed to Session.Status: nil, a string, an error, a
\* proto.Message or any other value; fails: marshalling the value fails.
StatusValues ==
    [kind : {"nil"}, data : {<<>>}, fails : {FALSE}]
    \cup [kind : {"string", "error"}, data : {<<>>, <<"not found">>}, fails : {FALSE}]
    \cup [kind : {"proto", "other"}, data : {<<"m">>}, fails : BOOLEAN]
StatusCodes == {200, 404}

\* json.MarshalIndent and json.Marshal give different bytes.
JsonMarshalIndent(d) == <<"{", "\n">> \o d \o <<"\n", "}">>

\* A variant of encodeProto that writes the status line before marshalling.
encodeProtoHeaderFirst(w, code, v, acc) ==
    LET ct == IF acc = NoType THEN ProtobufContentTypes[1] ELSE acc
    IN  IF v.fails
        THEN [w EXCEPT !.ct = ct, !.codes = Append(@, code)]
        ELSE [w EXCEPT !.ct = ct, !.codes = Append(@, code),
                       !.body = @ \o ProtoMarshal(v.data)]

\* session.go 165-183: the response after encodeProto.
encodeProto(w, code, v, acc) ==
    LET ct == IF acc = NoType THEN ProtobufContentTypes[1] ELSE acc
    IN  IF v.fails
        THEN [w EXCEPT !.ct = ct]
        ELSE [w EXCEPT !.ct = ct, !.codes = Append(@, code),
                       !.body = @ \o ProtoMarshal(v.data)]

\* session.go 185-207: the response after encodeJSON.
encodeJSON(w, code, v, indent) ==
    IF v.fails
    THEN [w EXCEPT !.ct = JsonContentType]
    ELSE [w EXCEPT !.ct = JsonContentType, !.codes = Append(@, code),
                   !.body = @ \o (IF indent THEN JsonMarshalIndent(v.data)
                                  ELSE JsonMarshal(v.data))]

\* session.go 96-106: the representation encode writes a value in.
EncodeChoice(r, kind) ==
    IF kind = "proto"
       /\ (isProto(contentType(r)) \/ accepts(ProtobufContentTypes, r.accept) # NoType)
    THEN "binary"
    ELSE "json"

\* A variant of the text branch that omits the trailing newline.
writeTextNoNewline(w, code, msg) ==
    [w EXCEPT !.ct = TextContentType, !.nosniff = "nosniff",
              !.codes = Append(@, code), !.body = @ \o msg]

\* session.go 127-131: the string / error branch of Status: two headers,
\* the status line, then fmt.Fprintln of the text.
writeText(w, code, msg) ==
    [w EXCEPT !.ct = TextContentType, !.nosniff = "nosniff",
              !.codes = Append(@, code), !.body = @ \o msg \o <<"\n">>]

\* session.go 109-135 with encode (95-107): Session.Status(code, v), and
\* StatusCode / Statusf (137-143), which hand it a string.
SessionStatus ==
    /\ spc \in {"handling", "decoded"}
    /\ \E code \in StatusCodes, v \in StatusValues :
         CASE v.kind = "nil" ->
                /\ resp' = [resp EXCEPT !.codes = Append(@, code)]
                /\ sout' = [op |-> "Status", kind |-> v.kind, repr |-> "none",
                            err |-> "nil", code |-> code, val |-> v.data]
           [] v.kind \in {"string", "error"} ->
                /\ resp' = writeText(resp, code, v.data)
                /\ sout' = [op |-> "Status", kind |-> v.kind, repr |-> "text",
                            err |-> "nil", code |-> code, val |-> v.data]
           [] OTHER ->
                LET repr == EncodeChoice(sreq, v.kind)
                    acc == accepts(ProtobufContentTypes, sreq.accept)
                IN  /\ resp' = IF repr = "binary"
                               THEN encodeProto(resp, code, v, acc)
                               ELSE encodeJSON(resp, code, v, jsonIndent)
                    /\ sout' = [op |-> "Status", kind |-> v.kind, repr |-> repr,
                                err |-> IF v.fails THEN "ErrMarshal" ELSE "nil",
                                code |-> code, val |-> v.data]
    /\ spc' = "done"
    /\ UNCHANGED <<dvars, cvars, jsonIndent, sreq>>

----------------------------------------------------------------------------
(* Response.Decode *)

NoDecode == [op |-> "", kind |-> "", binary |-> FALSE, failed |-> FALSE,
             under |-> "nil", msg |-> <<>>]

\* The responses c.request can build (client.go 263-268): any status, body
\* and Content-Type the server sent, and the mode of the Client.
DecodeBodies == {<<>>, <<"x">>, <<"{", "m", "}">>, <<"#", "m">>}
DecodeTypes ==
    {jsonContentType, <<"application/json", "; charset=utf-8">>,
     <<"text/html">>, protoContentType}
DecodeResponses ==
    {[nil |-> FALSE, code |-> code, line |-> StatusLine(code), body |-> b,
      ct |-> ct, trip |-> 1, protobuf |-> pb] :
        code \in Codes, b \in DecodeBodies, ct \in DecodeTypes, pb \in BOOLEAN}

\* json.Unmarshal: the empty input and malformed documents fail.
JsonUnmarshalFails(data) ==
    ~(Len(data) >= 2 /\ data[1] = "{" /\ data[Len(data)] = "}")

\* A variant of the replacement test without the !protobuf conjunct.
ReplacesErrorAnyMode(failed, binary, ct) ==
    failed /\ ct # jsonContentType

\* client.go 94: the error is replaced by the body text.
ReplacesError(failed, binary, ct) ==
    failed /\ ~binary /\ ct # jsonContentType

\* client.go 80-98: Response.Decode(val); kind is the dynamic type of val,
\* a proto.Message or anything else.
ResponseDecode ==
    /\ ~rsp.nil
    /\ \E kind \in {"proto", "other"} :
         LET binary == kind = "proto" /\ rsp.protobuf
             under == IF binary
                      THEN IF ProtoUnmarshalFails(rsp.body) THEN "ErrProto" ELSE "nil"
                      ELSE IF JsonUnmarshalFails(rsp.body) THEN "ErrJSON" ELSE "nil"
             failed == under # "nil"
         IN  dec' = [op |-> "Decode", kind |-> kind, binary |-> binary,
                     failed |-> failed, under |-> under,
                     msg |-> IF ReplacesError(failed, binary, rsp.ct)
                             THEN rsp.body
                             ELSE IF failed THEN <<under>> ELSE <<>>]
    /\ UNCHANGED <<cvars, svars, rsp>>

----------------------------------------------------------------------------
(* Specifications *)

\* NewClient (client.go 109-114) followed by the builder calls Auth,
\* Protobuf and ExpectStatus (116-129), before first use.
ClientInit ==
    /\ installed \in {"nil", "A"}
    /\ auth = installed
    /\ protobuf \in BOOLEAN
    /\ status \in {0, 200}
    /\ call = [p \in Calls |-> IdleCall]
    /\ ncalls = 0

\* No inbound request is being served.
SessionIdle ==
    /\ jsonIndent = FALSE
    /\ sreq = NoRequest
    /\ resp = NewResponse
    /\ sout = NoOutcome
    /\ spc = "idle"

\* No Response is being decoded.
DecodeIdle ==
    /\ rsp = NilRes
    /\ dec = NoDecode

Init == ClientInit /\ SessionIdle /\ DecodeIdle

CallStep(p) ==
    \/ ClientRequest(p) \/ RequestDo(p)
    \/ Serialize(p) \/ NewRequest(p)
    \/ AuthCheck(p) \/ AuthLoad(p) \/ AuthClear(p) \/ Authorize(p) \/ AuthRestore(p)
    \/ AcceptDefault(p) \/ Send(p) \/ ReadBody(p) \/ StatusAssert(p)
    \/ Returned(p) \/ ValidateCheck(p) \/ Validate(p) \/ Invalidate(p)
    \/ Finish(p)

\* Single-threaded use: the calls on the Client follow one another.
Next == CallStep(1)

Spec == Init /\ [][Next]_vars

\* The calling goroutine keeps running: the capability's methods return and
\* the transport answers or fails within its timeout (client.go 112).
SpecFair == Init /\ [][Next]_vars /\ WF_vars(Next)

\* Concurrent use: two goroutines issue Client.Request on the same Client.
ConcurrentRequest(p) == RequestWith(p, {"GET"}, {"/u"}, {NilBody})

ConcurrentSend(p) ==
    SendWith(p, {r \in Responses : r.body = <<>> /\ r.ct = jsonContentType})

ConcStep(p) ==
    \/ ConcurrentRequest(p)
    \/ Serialize(p) \/ NewRequest(p)
    \/ AuthCheck(p) \/ AuthLoad(p) \/ AuthClear(p) \/ Authorize(p) \/ AuthRestore(p)
    \/ AcceptDefault(p) \/ ConcurrentSend(p) \/ ReadBody(p) \/ StatusAssert(p)
    \/ Returned(p) \/ ValidateCheck(p) \/ Validate(p) \/ Invalidate(p)
    \/ Finish(p)

NextConc == \E p \in Calls : ConcStep(p)

SpecConc == Init /\ [][NextConc]_vars

\* Nested use: the capability's Authorize, while it runs for call 1
\* (client.go 230), issues a Client.Request on the same Client: call 2 is
\* that nested frame.  The frames share one goroutine, so call 2 runs only
\* inside call 1's Authorize and call 1 goes on only when call 2 has
\* returned.
NestedSched(p) ==
    IF p = 1
    THEN call[2].pc \in {"idle", "done"}
    ELSE call[1].pc = "authorize" /\ call[1].lauth # "nil"

NestedStep(p) ==
    \/ ConcurrentRequest(p)
    \/ Serialize(p) \/ NewRequest(p)
    \/ AuthCheck(p) \/ AuthLoad(p) \/ AuthClear(p) \/ Authorize(p) \/ AuthRestore(p)
    \/ AcceptDefault(p) \/ ConcurrentSend(p) \/ ReadBody(p) \/ StatusAssert(p)
    \/ Returned(p) \/ ValidateCheck(p) \/ Validate(p) \/ Invalidate(p)
    \/ Finish(p)

NextNested == \E p \in Calls : NestedSched(p) /\ NestedStep(p)

\* The goroutine keeps running, as in SpecFair.
SpecNested == Init /\ [][NextNested]_vars /\ WF_vars(NextNested)

\* An idle Client beside the Session.
ClientIdle ==
    /\ installed = "nil"
    /\ auth = "nil"
    /\ protobuf = FALSE
    /\ status = 0
    /\ call = [p \in Calls |-> IdleCall]
    /\ ncalls = 0

\* A handler is given a Session for one inbound request.
SessionInit ==
    /\ ClientIdle
    /\ DecodeIdle
    /\ jsonIndent \in BOOLEAN
    /\ sreq \in Requests
    /\ resp = NewResponse
    /\ sout = NoOutcome
    /\ spc = "handling"

SessionNext == SessionDecode \/ SessionStatus

SessionSpec == SessionInit /\ [][SessionNext]_vars

\* The application holds a Response that Client.Request returned and
\* decodes it, into one destination or another, any number of times.
DecodeInit ==
    /\ ClientIdle
    /\ SessionIdle
    /\ rsp \in DecodeResponses
    /\ dec = NoDecode

DecodeNext == ResponseDecode

DecodeSpec == DecodeInit /\ [][DecodeNext]_vars

----------------------------------------------------------------------------
(* Properties of the client's request pipeline *)

EvCount(trace, op) == Cardinality({i \in DOMAIN trace : trace[i].op = op})
HasEv(trace, op, out) == \E i \in DOMAIN trace : trace[i].op = op /\ trace[i].out = out
LastEv(trace) == trace[Len(trace)]

\* The error value each failing step returns.
ErrOf(c, ev) ==
    CASE ev.op = "Serialize" -> "ErrSerialize"
      [] ev.op = "NewRequest" -> "ErrNewRequest"
      [] ev.op = "Authorize" -> "ErrAuthorize"
      [] ev.op = "Send" -> "ErrTransport"
      [] ev.op = "ReadBody" -> "ErrReadBody"
      [] ev.op = "Status" -> StatusLine(c.raw.code)
      [] ev.op = "Validate" -> "ErrValidate"
      [] OTHER -> "ErrInvalidate"

\* A Client.Request call has made at most two round trips, one Invalidate,
\* one Validate and the fourteen pipeline steps of two attempts.
RetryBounded ==
    \A p \in Calls :
        call[p].entry = "Request" =>
            /\ Len(call[p].sent) <= 2
            /\ EvCount(call[p].trace, "Invalidate") <= 1
            /\ EvCount(call[p].trace, "Validate") <= 1
            /\ Len(call[p].trace) <= 14

\* C1: whatever the Auth capability and the transport answer, a
\* Client.Request call terminates, having performed at most two network
\* round trips and at most one Invalidate call: there is no retry loop.
C1_RetryBound ==
    /\ []RetryBounded
    /\ (call[1].pc = "serialize" /\ call[1].entry = "Request")
         ~> (call[1].pc = "done")

C1_Witness ==
    \E p \in Calls :
        /\ call[p].pc = "done" /\ call[p].entry = "Request"
        /\ Len(call[p].sent) = 2
        /\ HasEv(call[p].trace, "Validate", "false")
        /\ EvCount(call[p].trace, "Invalidate") = 1

\* C2: when Validate answers false for the first response and every other
\* step succeeds, a Client.Request call makes exactly two round trips and one
\* Invalidate call and returns the Response of the second round trip.
C2_ExactRetry ==
    \A p \in Calls :
        LET c == call[p]
        IN  (/\ c.pc = "done" /\ c.entry = "Request"
             /\ HasEv(c.trace, "Validate", "false")
             /\ c.err = "nil")
            => /\ Len(c.sent) = 2
               /\ EvCount(c.trace, "Invalidate") = 1
               /\ ~c.res.nil
               /\ c.res.trip = 2
               /\ c.res = [c.raw EXCEPT !.protobuf = protobuf]

C2_Witness ==
    \E p \in Calls :
        /\ call[p].pc = "done" /\ call[p].entry = "Request"
        /\ HasEv(call[p].trace, "Validate", "false")
        /\ call[p].err = "nil"
        /\ call[p].res.trip = 2
        /\ call[p].res.code = 401

\* C3: when Client.Request retries, the second round trip carries the method,
\* the URL and the body bytes of the first one, for every kind of body value.
C3_RetrySameRequest ==
    \A p \in Calls :
        LET c == call[p]
        IN  (c.entry = "Request" /\ Len(c.sent) = 2)
            => /\ c.sent[2].method = c.sent[1].method
               /\ c.sent[2].url = c.sent[1].url
               /\ c.sent[2].body = c.sent[1].body

\* C4: the first failing step ends the call: no pipeline step follows a
\* failed one, and the call returns that step's error with a nil Response.
C4_FailFast ==
    \A p \in Calls :
        LET c == call[p]
        IN  /\ \A i \in DOMAIN c.trace :
                 c.trace[i].out = "err" => i = Len(c.trace)
            /\ (c.trace # <<>> /\ LastEv(c.trace).out = "err")
                 => /\ c.pc \in {"authrestore", "returned", "done"}
                    /\ c.pc # "authrestore" => c.res.nil
                    /\ c.err = ErrOf(c, LastEv(c.trace))
            /\ (c.pc = "done" /\ c.err # "nil")
                 => c.res.nil /\ c.trace # <<>> /\ LastEv(c.trace).out = "err"

C4_Witness ==
    \E p \in Calls :
        LET c == call[p]
        IN  /\ c.pc = "done" /\ c.entry = "Request" /\ installed = "A"
            /\ c.trace # <<>> /\ LastEv(c.trace) = Ev("Send", 1, "err")
            /\ c.err = "ErrTransport" /\ c.res.nil

\* C5: a round trip whose status code differs from a non-zero expected status
\* fails with the error made of the status line and no Response, whatever
\* the body; with equal codes, or no expected status, the assertion passes.
C5_StatusAssertion ==
    \A p \in Calls :
        LET c == call[p]
        IN  (c.pc = "returned" /\ c.trace # <<>> /\ LastEv(c.trace).op = "Status")
            => IF status # 0 /\ c.raw.code # status
               THEN c.err = StatusLine(c.raw.code) /\ c.res.nil
               ELSE /\ c.err = "nil" /\ ~c.res.nil
                    /\ c.res.code = c.raw.code /\ c.res.body = c.raw.body

C5_Witness ==
    \E p \in Calls :
        LET c == call[p]
        IN  /\ c.pc = "returned" /\ c.trace # <<>>
            /\ LastEv(c.trace) = Ev("Status", 1, "err")
            /\ status = 200 /\ c.raw.code = 401 /\ c.raw.body = <<"x">>
            /\ c.err = "401 Unauthorized" /\ c.res.nil

\* Between line 229 and the restore of line 232 / 236.
InAuthorize(q) == call[q].pc \in {"authorize", "authrestore"}

\* C6: with a capability installed, a call that finds the auth field nil at
\* line 227 (and sends without Authorize) or at line 157 (and returns without
\* Validate) does so while the other call is inside its Authorize step, which
\* cleared the field.
C6_ObservesCleared ==
    [][\A p \in Calls :
         (/\ installed = "A"
          /\ \/ call[p].pc = "authchk" /\ call'[p].pc = "accept"
             \/ call[p].pc = "valchk" /\ call'[p].pc = "done")
         => \E q \in Calls \ {p} : InAuthorize(q)]_vars

C6_Witness ==
    \E p \in Calls :
        LET c == call[p]
        IN  /\ installed = "A" /\ c.pc = "done" /\ c.err = "nil" /\ ~c.res.nil
            /\ Len(c.sent) = 1 /\ c.sent[1].header.authz = ""
            /\ EvCount(c.trace, "Authorize") = 0
            /\ EvCount(c.trace, "Validate") = 0

\* C7: in single-threaded use the auth field differs from the installed
\* capability only inside the Authorize step, and it holds the value it had
\* at the start of the call whenever c.request has returned; so between
\* calls the installed capability is in place.
C7_AuthRestored ==
    /\ auth \in {"nil", installed}
    /\ auth # installed => InAuthorize(1)
    /\ call[1].pc \in {"returned", "done"} => auth = call[1].auth0
    /\ call[1].pc = "idle" => auth = installed

C7_Witness ==
    /\ installed = "A" /\ auth = "A" /\ ncalls = 2
    /\ call[1].pc = "done"
    /\ HasEv(call[1].trace, "Authorize", "err")

----------------------------------------------------------------------------
(* Properties of the Session's content negotiation *)

\* A media type string starts with one of the two binary media types.
StartsWithBinary(mime) ==
    \/ HasPrefix(mime, <<"application/protobuf">>)
    \/ HasPrefix(mime, <<"application/x-protobuf">>)

\* The value Header.Get("Accept") reads: the first one.
FirstAccept == IF sreq.accept = <<>> THEN <<>> ELSE sreq.accept[1]

\* C8: into a binary-capable destination Session.Decode decodes binary
\* exactly when the Content-Type starts with a binary media type, or
\* ContentLength <= 0 and the Accept header (the value Header.Get reads)
\* starts with one; otherwise, and into any other destination, it decodes JSON.
C8_DecodeChoice ==
    sout.op = "Decode" =>
        IF sout.kind = "proto"
        THEN /\ sout.repr \in {"binary", "json"}
             /\ sout.repr = "binary" <=>
                    \/ StartsWithBinary(sreq.ct)
                    \/ sreq.clen <= 0 /\ StartsWithBinary(FirstAccept)
        ELSE sout.repr = "json"

C8_Witness ==
    /\ sout.op = "Decode" /\ sout.kind = "proto" /\ sout.repr = "binary"
    /\ sreq.ct = jsonContentType /\ sreq.clen = -1
    /\ FirstAccept = <<"application/x-protobuf", ", ", "application/json">>

\* C9 as stated: for a binary-capable destination and a bodiless request,
\* Decode chooses JSON unless an Accept value starts with a binary media type.
C9_BodilessOnlyAccept ==
    (/\ sout.op = "Decode" /\ sout.kind = "proto" /\ sreq.clen <= 0
     /\ ~\E j \in DOMAIN sreq.accept : StartsWithBinary(sreq.accept[j]))
    => sout.repr = "json"

\* C9 amended: for a binary-capable destination and a bodiless request,
\* Decode chooses JSON unless the Content-Type or the Accept header (the
\* value Header.Get reads) starts with a binary media type.
C9_BodilessDecode ==
    (/\ sout.op = "Decode" /\ sout.kind = "proto" /\ sreq.clen <= 0
     /\ ~StartsWithBinary(FirstAccept)
     /\ ~StartsWithBinary(sreq.ct))
    => sout.repr = "json"

C9_Witness ==
    /\ sout.op = "Decode" /\ sout.kind = "proto" /\ sreq.clen = 0
    /\ sreq.ct = NoType
    /\ sreq.accept = <<jsonContentType, <<"application/protobuf">>>>
    /\ sout.repr = "json"

\* The first Accept value, in header order, that starts with a binary type.
FirstBinaryAccept ==
    sreq.accept[CHOOSE j \in DOMAIN sreq.accept :
                    /\ StartsWithBinary(sreq.accept[j])
                    /\ \A k \in DOMAIN sreq.accept :
                          StartsWithBinary(sreq.accept[k]) => j <= k]

\* C10 as stated: for a binary-capable value, when some Accept value starts
\* with a binary media type the response is binary and its Content-Type is
\* the first such Accept value in header order; with no such value and a
\* binary request Content-Type it is application/protobuf.
C10_ContentTypeHeaderOrder ==
    (sout.op = "Status" /\ sout.kind = "proto") =>
        IF \E j \in DOMAIN sreq.accept : StartsWithBinary(sreq.accept[j])
        THEN sout.repr = "binary" /\ resp.ct = FirstBinaryAccept
        ELSE StartsWithBinary(sreq.ct)
             => sout.repr = "binary" /\ resp.ct = <<"application/protobuf">>

\* C10 amended: when some Accept value starts with a binary media type the
\* response is binary and its Content-Type is the first of
\* application/protobuf, application/x-protobuf (in that order) that some
\* Accept value starts with: the media type, not the Accept value; Accept:
\* "application/x-protobuf, application/json" gives application/x-protobuf.
\* With no such value and a binary request Content-Type it is
\* application/protobuf.
C10_ContentTypeTypeOrder ==
    (sout.op = "Status" /\ sout.kind = "proto") =>
        /\ IF \E j \in DOMAIN sreq.accept : StartsWithBinary(sreq.accept[j])
           THEN /\ sout.repr = "binary"
                /\ resp.ct =
                     IF \E j \in DOMAIN sreq.accept :
                            HasPrefix(sreq.accept[j], <<"application/protobuf">>)
                     THEN <<"application/protobuf">>
                     ELSE <<"application/x-protobuf">>
           ELSE StartsWithBinary(sreq.ct)
                => sout.repr = "binary" /\ resp.ct = <<"application/protobuf">>
        /\ sreq.accept = <<<<"application/x-protobuf", ", ", "application/json">>>>
             => resp.ct = <<"application/x-protobuf">>
        /\ (sout.repr = "binary" /\ sout.err = "nil")
             => resp.body = <<"#", "m">>

C10_Witness ==
    /\ sout.op = "Status" /\ sout.kind = "proto" /\ sout.repr = "binary"
    /\ sreq.accept = <<<<"application/x-protobuf">>, <<"application/protobuf">>>>
    /\ resp.ct = <<"application/protobuf">>
    /\ resp.body = <<"#", "m">>

\* C11: a Status call given a string or an error answers in plain text,
\* whatever the request's Accept and Content-Type say: Content-Type is
\* "text/plain; charset=utf-8", X-Content-Type-Options is "nosniff", the
\* status line is written once with the given code, and the body is the
\* text followed by one newline; no structured representation is chosen.
C11_PlainText ==
    (sout.op = "Status" /\ sout.kind \in {"string", "error"})
        => /\ resp.ct = TextContentType
           /\ resp.nosniff = "nosniff"
           /\ resp.codes = <<sout.code>>
           /\ resp.body = sout.val \o <<"\n">>
           /\ sout.repr = "text"
           /\ sout.err = "nil"

C11_Witness ==
    /\ sout.op = "Status" /\ sout.kind = "error"
    /\ sout.code = 404 /\ sout.val = <<"not found">>
    /\ accepts(ProtobufContentTypes, sreq.accept) # NoType
    /\ isProto(contentType(sreq))
    /\ resp.body = <<"not found", "\n">>

\* C16: when Status is given a structured value whose serialization fails,
\* it writes no status line and no body, tries no other representation, and
\* returns; the one change to the response is the Content-Type header of
\* the representation that was chosen.
C16_EncodeFailureAbandons ==
    (sout.op = "Status" /\ sout.kind \in {"proto", "other"} /\ sout.err # "nil")
        => /\ spc = "done"
           /\ resp.codes = <<>>
           /\ resp.body = <<>>
           /\ resp.nosniff = NewResponse.nosniff
           /\ sout.repr = EncodeChoice(sreq, sout.kind)
           /\ sout.repr = "json" => resp.ct = JsonContentType
           /\ sout.repr = "binary" =>
                 resp.ct = (IF accepts(ProtobufContentTypes, sreq.accept) = NoType
                            THEN ProtobufContentTypes[1]
                            ELSE accepts(ProtobufContentTypes, sreq.accept))

C16_Witness ==
    /\ sout.op = "Status" /\ sout.kind = "proto" /\ sout.err = "ErrMarshal"
    /\ sout.repr = "binary"
    /\ resp = [NewResponse EXCEPT !.ct = <<"application/x-protobuf">>]

\* C12, as stated: whenever Response.Decode fails and the Content-Type of
\* the response is not JSON, the error's message is the body text, for every
\* destination and in both client modes; when it is JSON the underlying
\* error is returned.
C12_ReplacedWheneverNotJSON ==
    (dec.op = "Decode" /\ dec.failed)
        => dec.msg = (IF rsp.ct # jsonContentType THEN rsp.body ELSE <<dec.under>>)

\* C12, amended: the body text replaces the error only when the decode was
\* a JSON decode (the destination is not a proto.Message, or the Client is
\* not in binary mode) and the Content-Type is not exactly
\* "application/json"; after a failed binary decode, and when the
\* Content-Type is "application/json", the underlying error is returned.
C12_ReplacedAfterJSONDecode ==
    (dec.op = "Decode" /\ dec.failed)
        => /\ dec.binary = (dec.kind = "proto" /\ rsp.protobuf)
           /\ dec.msg = (IF ~dec.binary /\ rsp.ct # jsonContentType
                         THEN rsp.body ELSE <<dec.under>>)

C12_Witness ==
    /\ dec.op = "Decode" /\ dec.failed
    /\ dec.kind = "proto" /\ rsp.protobuf
    /\ rsp.ct = <<"text/html">> /\ rsp.body = <<"x">>
    /\ dec.msg = <<"ErrProto">>

----------------------------------------------------------------------------
(* Further properties of the client's request pipeline *)

\* C13: a call through Request.Do makes one attempt: Serialize, Authorize
\* and Send run at most once (once each when the call succeeds with a
\* capability installed), Validate and Invalidate are never invoked, and
\* there is at most one round trip, whatever the server answers.
C13_DoRunsOnce ==
    \A p \in Calls :
        LET c == call[p]
        IN  c.entry = "Do"
            => /\ EvCount(c.trace, "Serialize") <= 1
               /\ EvCount(c.trace, "Authorize") <= 1
               /\ EvCount(c.trace, "Send") <= 1
               /\ Len(c.sent) <= 1
               /\ EvCount(c.trace, "Validate") = 0
               /\ EvCount(c.trace, "Invalidate") = 0
               /\ c.attempt = 1
               /\ c.pc \notin {"valchk", "validate", "invalidate"}
               /\ (c.pc = "done" /\ c.err = "nil")
                    => /\ EvCount(c.trace, "Serialize") = 1
                       /\ EvCount(c.trace, "Send") = 1
                       /\ Len(c.sent) = 1
                       /\ EvCount(c.trace, "Authorize")
                            = (IF installed = "A" THEN 1 ELSE 0)

C13_Witness ==
    \E p \in Calls :
        LET c == call[p]
        IN  /\ c.pc = "done" /\ c.entry = "Do" /\ installed = "A"
            /\ c.err = "nil" /\ c.res.code = 401
            /\ Len(c.sent) = 1
            /\ HasEv(c.trace, "Authorize", "ok")

\* The events of attempt att before position i of a trace.
Before(trace, i, op, att, out) ==
    {j \in 1 .. i - 1 : trace[j] = Ev(op, att, out)}

\* C14: in single-threaded use with a capability installed the steps of a
\* call are ordered: Authorize runs only after Serialize of its attempt
\* succeeded; a round trip is made only after Serialize and exactly one
\* Authorize of its attempt succeeded; Validate runs only after the first
\* round trip completed; Invalidate runs only directly after Validate
\* answered false, after the first round trip and before the Authorize of
\* the second attempt.
C14_StepOrder ==
    \A p \in Calls :
        LET c == call[p]
            t == c.trace
        IN  installed = "A"
            => /\ EvCount(t, "Send") = Len(c.sent)
               /\ \A i \in DOMAIN t :
                    LET e == t[i]
                    IN  /\ e.op = "Authorize"
                             => /\ Before(t, i, "Serialize", e.att, "ok") # {}
                                /\ Before(t, i, "Send", e.att, "ok") = {}
                                /\ Before(t, i, "Send", e.att, "err") = {}
                        /\ e.op = "Send"
                             => /\ Before(t, i, "Serialize", e.att, "ok") # {}
                                /\ Cardinality(Before(t, i, "Authorize", e.att, "ok")) = 1
                                /\ Before(t, i, "Authorize", e.att, "err") = {}
                                /\ Before(t, i, "Serialize", e.att, "err") = {}
                        /\ e.op = "Validate"
                             => /\ Before(t, i, "Send", 1, "ok") # {}
                                /\ Before(t, i, "ReadBody", 1, "ok") # {}
                                /\ Before(t, i, "Status", 1, "ok") # {}
                        /\ e.op = "Invalidate"
                             => /\ i > 1 /\ t[i - 1] = Ev("Validate", 1, "false")
                                /\ Before(t, i, "Send", 1, "ok") # {}
                                /\ \A j \in 1 .. i - 1 : t[j].att = 1
                                /\ \A j \in DOMAIN t :
                                     (t[j].op = "Authorize" /\ t[j].att = 2) => j > i

C14_Witness ==
    \E p \in Calls :
        LET c == call[p]
        IN  /\ installed = "A" /\ c.pc = "done" /\ c.err = "nil"
            /\ Len(c.trace) = 14
            /\ c.trace[3] = Ev("Authorize", 1, "ok")
            /\ c.trace[4] = Ev("Send", 1, "ok")
            /\ c.trace[7] = Ev("Validate", 1, "false")
            /\ c.trace[8] = Ev("Invalidate", 1, "ok")
            /\ c.trace[11] = Ev("Authorize", 2, "ok")
            /\ c.trace[12] = Ev("Send", 2, "ok")

\* C17: the step after Authorize sets the outgoing Accept header to the
\* Client's preference exactly when the body argument is nil, a byte slice
\* or a stream, replacing whatever the caller's headers or Authorize put
\* there; for every other body argument it leaves Accept as it was.
C17_AcceptDefault ==
    [][\A p \in Calls :
          (call[p].pc = "accept" /\ call'[p].pc = "send")
            => call'[p].req.header.accept =
                 (IF call[p].r.kind \in {"nil", "bytes", "reader"}
                  THEN (IF protobuf THEN protoContentType ELSE jsonContentType)
                  ELSE call[p].req.header.accept)]_vars

C17_Witness ==
    \E p \in Calls :
        LET c == call[p]
        IN  /\ c.pc = "send" /\ c.entry = "Do" /\ c.r.kind = "bytes"
            /\ c.header.accept = <<"text/plain">>
            /\ HasEv(c.trace, "Authorize", "ok")
            /\ protobuf
            /\ c.req.header.accept = protoContentType

\* C18: when an expected status is set and the first round trip answers
\* another one, Client.Request returns the status error with no Response,
\* without invoking Validate or Invalidate and without a second round trip.
C18_StatusBeforeRefresh ==
    \A p \in Calls :
        LET c == call[p]
        IN  (c.entry = "Request"
             /\ \E i \in DOMAIN c.trace : c.trace[i] = Ev("Status", 1, "err"))
            => /\ LastEv(c.trace) = Ev("Status", 1, "err")
               /\ EvCount(c.trace, "Validate") = 0
               /\ EvCount(c.trace, "Invalidate") = 0
               /\ Len(c.sent) = 1
               /\ c.pc \in {"returned", "done"}
               /\ c.err = c.raw.line
               /\ c.res.nil

C18_Witness ==
    \E p \in Calls :
        LET c == call[p]
        IN  /\ c.pc = "done" /\ c.entry = "Request"
            /\ installed = "A" /\ status = 200 /\ c.raw.code = 401
            /\ c.err = "401 Unauthorized" /\ c.res.nil
            /\ Len(c.sent) = 1

\* C19: Client.Request invokes Validate at most once, on the Response of
\* the first round trip; the Response of a retry is returned with a nil
\* error and Validate is not invoked on it.
C19_RetryNotValidated ==
    \A p \in Calls :
        LET c == call[p]
        IN  /\ EvCount(c.trace, "Validate") <= 1
            /\ \A i \in DOMAIN c.trace :
                 c.trace[i].op = "Validate"
                    => c.trace[i].att = 1 /\ Before(c.trace, i, "Send", 2, "ok") = {}
            /\ c.pc = "validate" => (~c.res.nil /\ c.res.trip = 1)
            /\ (c.pc = "done" /\ c.err = "nil" /\ Len(c.sent) = 2)
                 => /\ ~c.res.nil /\ c.res.trip = 2
                    /\ LastEv(c.trace) = Ev("Status", 2, "ok")

C19_Witness ==
    \E p \in Calls :
        LET c == call[p]
        IN  /\ c.pc = "done" /\ c.err = "nil" /\ Len(c.sent) = 2
            /\ c.res.trip = 2 /\ c.res.code = 401 /\ status = 0
            /\ EvCount(c.trace, "Validate") = 1

\* The frame of call 2 has invoked no method of the capability and has made
\* one attempt at most.
NestedUnauthorized ==
    LET n == call[2]
    IN  /\ EvCount(n.trace, "Authorize") = 0
        /\ EvCount(n.trace, "Validate") = 0
        /\ EvCount(n.trace, "Invalidate") = 0
        /\ n.pc \notin {"authload", "authclr", "authorize", "authrestore",
                        "validate", "invalidate", "panic"}
        /\ n.attempt <= 1
        /\ Len(n.sent) <= 1

\* C15: a call issued on the Client from inside Authorize finds the auth
\* field nil: it invokes none of Authorize, Validate and Invalidate and
\* does not retry, so Authorize is not re-entered; the nested call returns,
\* and the outer call then puts the capability back.
C15_ReentrancyGuard ==
    /\ [](/\ NestedUnauthorized
          /\ call[2].pc \notin {"idle", "done"}
                => (call[1].pc = "authorize" /\ auth = "nil")
          /\ ~InAuthorize(1) => auth = installed)
    /\ (call[2].pc = "serialize") ~> (call[2].pc = "done")
    /\ (call[2].pc = "done") ~> (~InAuthorize(1) /\ auth = installed)

C15_Witness ==
    /\ installed = "A" /\ auth = "A"
    /\ call[1].pc = "done" /\ call[1].err = "nil"
    /\ call[2].pc = "done" /\ call[2].err = "nil"
    /\ call[2].auth0 = "nil"
    /\ Len(call[2].sent) = 1 /\ call[2].res.code = 401

\* C20: in concurrent use no call invokes Authorize, Validate or Invalidate
\* on a nil capability: the value read for the invocation is the non-nil
\* one that the test before it saw.
C20_NoNilInvocation ==
    \A p \in Calls :
        /\ call[p].pc # "panic"
        /\ call[p].pc \in {"authclr", "authorize"} => call[p].lauth # "nil"
        /\ call[p].pc \in {"validate", "invalidate"} => auth # "nil"

====
